---- MODULE Spec2Model ----
(***************************************************************************)
(* A model of CS203_Lab_01-main/app.py: a Flask course catalogue whose     *)
(* records live in one JSON file, with a before_request/after_request      *)
(* pair that opens and closes a trace span, counts and logs every request. *)
(*                                                                         *)
(* The backing file is modelled as its text, a sequence of JSON lexemes    *)
(* (whitespace, which json.load skips, is left out).  json.dump and        *)
(* json.load are the serialiser and the parser over that text.             *)
(* Requests are threads of the server: each one runs before_request, its   *)
(* view function and after_request; a view function is one step, except    *)
(* add_courses, whose save_courses touches the file three times (read,     *)
(* open for writing, write) and is three steps.                            *)
(*                                                                         *)
(* Left out: the clock (route_processing_time records a sample, its value  *)
(* is not modelled), the templates, and the spans FlaskInstrumentor adds   *)
(* on its own.                                                             *)
(***************************************************************************)
EXTENDS Integers, Sequences, FiniteSets, Bags, TLC

\* ---------------------------------------------------------------- bounds
\* Requests served in one run of the server.
MaxRequests == 2
\* Requests the concurrent server runs at the same time.
MaxThreads == 2

\* ------------------------------------------------------ JSON text (lexemes)
Tok(t, s) == [t |-> t, s |-> s]
LBRACKET == Tok("[", "")
RBRACKET == Tok("]", "")
LBRACE == Tok("{", "")
RBRACE == Tok("}", "")
COMMA == Tok(",", "")
COLON == Tok(":", "")
Str(s) == Tok("str", s)
Num(s) == Tok("num", s)

\* A JSON object whose members are strings is a function from its keys.
EmptyObj == [k \in {} |-> ""]

\* What json.load returns: a list of objects, an object, a string or a
\* number; kind "error" stands for json.JSONDecodeError.
JArray(items) == [kind |-> "array", items |-> items, obj |-> EmptyObj, str |-> ""]
JObject(o) == [kind |-> "object", items |-> <<>>, obj |-> o, str |-> ""]
JString(s) == [kind |-> "string", items |-> <<>>, obj |-> EmptyObj, str |-> s]
JNumber(s) == [kind |-> "number", items |-> <<>>, obj |-> EmptyObj, str |-> s]
JError == [kind |-> "error", items |-> <<>>, obj |-> EmptyObj, str |-> ""]

\* The keys of a course, in the order add_courses builds the dict.
KeyOrder == <<"code", "name", "instructor">>

RECURSIVE DumpMembers(_, _, _)
DumpMembers(o, i, first) ==
    IF i > Len(KeyOrder) THEN <<>>
    ELSE IF KeyOrder[i] \in DOMAIN o
         THEN (IF first THEN <<>> ELSE <<COMMA>>)
              \o <<Str(KeyOrder[i]), COLON, Str(o[KeyOrder[i]])>>
              \o DumpMembers(o, i + 1, FALSE)
         ELSE DumpMembers(o, i + 1, first)

DumpObject(o) == <<LBRACE>> \o DumpMembers(o, 1, TRUE) \o <<RBRACE>>

RECURSIVE DumpItems(_, _)
DumpItems(items, i) ==
    IF i > Len(items) THEN <<>>
    ELSE (IF i = 1 THEN <<>> ELSE <<COMMA>>)
         \o DumpObject(items[i]) \o DumpItems(items, i + 1)

\* A save that writes the new course alone: json.dump([data], file).
json_dump_new_only(items) ==
    <<LBRACKET>>
    \o (IF items = <<>> THEN <<>> ELSE DumpObject(items[Len(items)]))
    \o <<RBRACKET>>

\* json.dump(courses, file, indent=4): the text of a list of objects.
json_dump(items) == <<LBRACKET>> \o DumpItems(items, 1) \o <<RBRACKET>>

ParseFail == [ok |-> FALSE, obj |-> EmptyObj, items |-> <<>>, next |-> 0]

RECURSIVE ParseMembers(_, _, _)
ParseMembers(toks, i, acc) ==
    IF i + 3 <= Len(toks) /\ toks[i].t = "str" /\ toks[i + 1] = COLON
       /\ toks[i + 2].t = "str"
    THEN LET acc2 == (toks[i].s :> toks[i + 2].s) @@ acc
         IN  IF toks[i + 3] = COMMA THEN ParseMembers(toks, i + 4, acc2)
             ELSE IF toks[i + 3] = RBRACE
                  THEN [ok |-> TRUE, obj |-> acc2, items |-> <<>>, next |-> i + 4]
                  ELSE ParseFail
    ELSE ParseFail

\* An object starting at toks[i] = "{"; next is the position after its "}".
ParseObject(toks, i) ==
    IF i + 1 <= Len(toks) /\ toks[i] = LBRACE
    THEN IF toks[i + 1] = RBRACE
         THEN [ok |-> TRUE, obj |-> EmptyObj, items |-> <<>>, next |-> i + 2]
         ELSE ParseMembers(toks, i + 1, EmptyObj)
    ELSE ParseFail

RECURSIVE ParseItems(_, _, _)
ParseItems(toks, i, acc) ==
    LET o == ParseObject(toks, i)
    IN  IF o.ok /\ o.next <= Len(toks)
        THEN IF toks[o.next] = COMMA
             THEN ParseItems(toks, o.next + 1, Append(acc, o.obj))
             ELSE IF toks[o.next] = RBRACKET
                  THEN [ok |-> TRUE, obj |-> EmptyObj,
                        items |-> Append(acc, o.obj), next |-> o.next + 1]
                  ELSE ParseFail
        ELSE ParseFail

ParseArray(toks, i) ==
    IF i + 1 <= Len(toks) /\ toks[i] = LBRACKET
    THEN IF toks[i + 1] = RBRACKET
         THEN [ok |-> TRUE, obj |-> EmptyObj, items |-> <<>>, next |-> i + 2]
         ELSE ParseItems(toks, i + 1, <<>>)
    ELSE ParseFail

\* json.load(file): the whole text must be one value (trailing text is
\* "Extra data", empty text is "Expecting value": both JSONDecodeError).
json_load(toks) ==
    IF toks = <<>> THEN JError
    ELSE IF toks[1].t = "str"
         THEN (IF Len(toks) = 1 THEN JString(toks[1].s) ELSE JError)
    ELSE IF toks[1].t = "num"
         THEN (IF Len(toks) = 1 THEN JNumber(toks[1].s) ELSE JError)
    ELSE IF toks[1] = LBRACE
         THEN LET o == ParseObject(toks, 1)
              IN  IF o.ok /\ o.next = Len(toks) + 1 THEN JObject(o.obj) ELSE JError
    ELSE IF toks[1] = LBRACKET
         THEN LET a == ParseArray(toks, 1)
              IN  IF a.ok /\ a.next = Len(toks) + 1 THEN JArray(a.items) ELSE JError
    ELSE JError

\* ------------------------------------------------------------ the file
\* COURSE_FILE: whether it exists, and its text.
NoFile == [exists |-> FALSE, text |-> <<>>]
FileOf(text) == [exists |-> TRUE, text |-> text]

Course(code, name, instructor) ==
    ("code" :> code) @@ ("name" :> name) @@ ("instructor" :> instructor)

\* load_courses(): [] when the file does not exist, else json.load of it.
\* exc names the exception raised ("" for none).
load_courses(f) ==
    IF ~f.exists THEN [exc |-> "", val |-> JArray(<<>>)]
    ELSE LET v == json_load(f.text)
         IN  IF v.kind = "error" THEN [exc |-> "JSONDecodeError", val |-> v]
             ELSE [exc |-> "", val |-> v]

\* ------------------------------------------------- Python on loaded values
\* A validation that tests `x is None` where the code tests `not x`.
Falsy_none_only(x) == x = <<>>

\* `not x` for the str-or-None that request.form.get returns: None is <<>>,
\* a string s is <<s>>.
Falsy(x) == x = <<>> \/ x[1] = ""

\* courses.insert(0, data) in place of courses.append(data).
list_insert_front(v, data) ==
    IF v.kind = "array"
    THEN [exc |-> "", items |-> <<data>> \o v.items]
    ELSE [exc |-> "AttributeError", items |-> <<>>]

\* courses.append(data): only a list has append.
list_append(v, data) ==
    IF v.kind = "array"
    THEN [exc |-> "", items |-> Append(v.items, data)]
    ELSE [exc |-> "AttributeError", items |-> <<>>]

\* len(courses): an int has no len().
py_len(v) ==
    IF v.kind = "number" THEN [exc |-> "TypeError", n |-> 0]
    ELSE IF v.kind = "array" THEN [exc |-> "", n |-> Len(v.items)]
    ELSE IF v.kind = "object" THEN [exc |-> "", n |-> Cardinality(DOMAIN v.obj)]
    ELSE [exc |-> "", n |-> Len(v.str)]

\* [course['name'] for course in courses]: iterating a dict or a string
\* yields strings, and indexing a string with 'name' is a TypeError.
course_names(v) ==
    IF v.kind = "number" THEN [exc |-> "TypeError", names |-> <<>>]
    ELSE IF v.kind = "string"
         THEN [exc |-> IF v.str = "" THEN "" ELSE "TypeError", names |-> <<>>]
    ELSE IF v.kind = "object"
         THEN [exc |-> IF DOMAIN v.obj = {} THEN "" ELSE "TypeError", names |-> <<>>]
    ELSE IF \A i \in 1..Len(v.items) : "name" \in DOMAIN v.items[i]
         THEN [exc |-> "", names |-> [i \in 1..Len(v.items) |-> v.items[i]["name"]]]
         ELSE [exc |-> "KeyError", names |-> <<>>]

NotFound == [exc |-> "", found |-> FALSE, course |-> EmptyObj]

RECURSIVE scan_courses(_, _, _)
scan_courses(items, code, i) ==
    IF i > Len(items) THEN NotFound
    ELSE IF "code" \notin DOMAIN items[i]
         THEN [exc |-> "KeyError", found |-> FALSE, course |-> EmptyObj]
    ELSE IF items[i]["code"] = code
         THEN [exc |-> "", found |-> TRUE, course |-> items[i]]
    ELSE scan_courses(items, code, i + 1)

RECURSIVE scan_courses_backwards(_, _, _)
scan_courses_backwards(items, code, i) ==
    IF i < 1 THEN NotFound
    ELSE IF "code" \notin DOMAIN items[i]
         THEN [exc |-> "KeyError", found |-> FALSE, course |-> EmptyObj]
    ELSE IF items[i]["code"] = code
         THEN [exc |-> "", found |-> TRUE, course |-> items[i]]
    ELSE scan_courses_backwards(items, code, i - 1)

\* A lookup that keeps the last match instead of stopping at the first.
find_course_last(v, code) ==
    IF v.kind = "array" THEN scan_courses_backwards(v.items, code, Len(v.items))
    ELSE IF v.kind = "number" \/ (v.kind = "string" /\ v.str # "")
            \/ (v.kind = "object" /\ DOMAIN v.obj # {})
         THEN [exc |-> "TypeError", found |-> FALSE, course |-> EmptyObj]
    ELSE NotFound

\* next((course for course in courses if course['code'] == code), None)
find_course(v, code) ==
    IF v.kind = "array" THEN scan_courses(v.items, code, 1)
    ELSE IF v.kind = "number" \/ (v.kind = "string" /\ v.str # "")
            \/ (v.kind = "object" /\ DOMAIN v.obj # {})
         THEN [exc |-> "TypeError", found |-> FALSE, course |-> EmptyObj]
    ELSE NotFound

\* The third test copied from the second: `if not course_name` twice.
missing_fields_copied_test(form) ==
    (IF Falsy(form.code) THEN <<"Course Code">> ELSE <<>>)
    \o (IF Falsy(form.name) THEN <<"Course Name">> ELSE <<>>)
    \o (IF Falsy(form.name) THEN <<"Instructor">> ELSE <<>>)

\* The names add_courses gives the empty or absent fields, in its order.
missing_fields(form) ==
    (IF Falsy(form.code) THEN <<"Course Code">> ELSE <<>>)
    \o (IF Falsy(form.name) THEN <<"Course Name">> ELSE <<>>)
    \o (IF Falsy(form.instructor) THEN <<"Instructor">> ELSE <<>>)

\* `if not course_code or not course_name or not instructor`
form_invalid(form) ==
    Falsy(form.code) \/ Falsy(form.name) \/ Falsy(form.instructor)

\* Redirects taken for errors: `>= 300`.
is_error_status_from_300(status) == status >= 300

\* `if response.status_code >= 400`
is_error_status(status) == status >= 400

\* app.run(debug=True): an exception no handler catches is re-raised out of
\* the application instead of becoming a 500 response.
DEBUG == TRUE

\* --------------------------------------------------------------- spans
Span(name, attrs) == [name |-> name, ended |-> FALSE, attrs |-> attrs]

\* Span.set_attribute: on an ended span the SDK drops the attribute and
\* warns "Setting attribute on ended span."
set_attribute(sp, k, v) ==
    IF sp.ended THEN sp ELSE [sp EXCEPT !.attrs = (k :> v) @@ @]

span_end(sp) == [sp EXCEPT !.ended = TRUE]

\* The warnings a handler gets for setting `keys` on sp.
ended_span_warnings(sp, keys) ==
    IF sp.ended THEN {<<sp.name, k>> : k \in keys} ELSE {}

\* `with tracer.start_as_current_span(name): ...set_attribute(...)`: the
\* span as it leaves the with block, ended.
handler_span(name, method, route) ==
    span_end(Span(name, ("http.method" :> method) @@ ("user.ip" :> "127.0.0.1")
                        @@ ("route" :> route)))

\* ------------------------------------------------------------- requests
\* request.path, as its segments: <<>> is "/".
Paths == {<<>>, <<"catalog">>, <<"add_courses">>, <<"course", "CS203">>,
          <<"course", "cs203">>, <<"nope">>}

NoForm == [code |-> <<>>, name |-> <<>>, instructor |-> <<>>]

Forms == [code : {<<>>, <<"">>, <<"CS203">>, <<"cs203">>},
          name : {<<>>, <<"">>, <<"Algo">>},
          instructor : {<<>>, <<"">>, <<"Dr. X">>}]

Req(method, path, form) == [method |-> method, path |-> path, form |-> form, span |-> 0]

\* The requests a client sends: a GET of every path, a POST of the form to
\* /add_courses, and a POST to a GET-only route.
Requests ==
    {Req("GET", p, NoForm) : p \in Paths}
    \cup {Req("POST", <<"add_courses">>, f) : f \in Forms}
    \cup {Req("POST", <<>>, NoForm)}

\* The url_map of the @app.route decorators: the endpoint of a path and the
\* methods it takes ("" when no rule matches).
endpoint_of(path) ==
    IF path = <<>> THEN "index"
    ELSE IF path = <<"catalog">> THEN "course_catalog"
    ELSE IF path = <<"add_courses">> THEN "add_courses"
    ELSE IF Len(path) = 2 /\ path[1] = "course" THEN "course_details"
    ELSE ""

methods_of(endpoint) == IF endpoint = "add_courses" THEN {"GET", "POST"} ELSE {"GET"}

\* The endpoint a request is dispatched to; "404" and "405" are werkzeug's
\* NotFound and MethodNotAllowed.
match_request(req) ==
    LET e == endpoint_of(req.path)
    IN  IF e = "" THEN "404"
        ELSE IF req.method \notin methods_of(e) THEN "405"
        ELSE e

NoContext == JObject(EmptyObj)

Response(status, body, context, flash) ==
    [status |-> status, body |-> body, context |-> context, flash |-> flash]

\* redirect(url_for('course_catalog')) after flash(message, category).
Redirect(category, message, args) ==
    Response(302, "redirect:/catalog", NoContext,
             <<[category |-> category, message |-> message, args |-> args]>>)

NoResponse == Response(0, "", NoContext, <<>>)
NoRequest == Req("", <<>>, NoForm)

LogRecord(level, msg, extra) == [level |-> level, msg |-> msg, extra |-> extra]

\* The extra={...} every handler's log record carries.
log_extra(route, method) ==
    ("route" :> route) @@ ("method" :> method) @@ ("user_ip" :> "127.0.0.1")

\* ---------------------------------------------------------------- state
VARIABLES
    file,                   \* COURSE_FILE on disk
    pc,                     \* where each request is
    request,                \* flask.request of each request (with request.span)
    response,               \* the response its view function returned
    exception,              \* the exception its view function raised, or ""
    courses,                \* save_courses' local list, the new course appended
    current_span,           \* the view function's current_span (index in spans)
    spans,                  \* every span the tracer started, in order
    warnings,               \* the SDK's "Setting attribute on ended span."
    route_request_counter,  \* route_requests_total, by attributes
    route_processing_time,  \* route_processing_time_ms samples, by attributes
    error_counter,          \* error_count, by attributes
    log                     \* the records logger wrote

vars == <<file, pc, request, response, exception, courses, current_span, spans,
          warnings,
          route_request_counter, route_processing_time, error_counter, log>>

telemetry == <<spans, warnings, route_request_counter, route_processing_time,
               error_counter, log>>

RequestIds == 1..MaxRequests

InFlight == {r \in RequestIds : pc[r] \notin {"idle", "done"}}

\* Files an operator may have left in place before the server starts: none,
\* an empty one, catalogues written by this program, a catalogue edited by
\* hand (an empty name), other JSON values, and a truncated write.
InitialFiles ==
    {NoFile,
     FileOf(<<>>),
     FileOf(json_dump(<<>>)),
     FileOf(json_dump(<<Course("CS203", "Systems", "Dr. Y")>>)),
     FileOf(json_dump(<<Course("cs203", "", "Dr. Y")>>)),
     FileOf(<<LBRACE, RBRACE>>),
     FileOf(<<LBRACE, Str("code"), COLON, Str("CS203"), RBRACE>>),
     FileOf(<<Str("CS203")>>),
     FileOf(<<Num("7")>>),
     FileOf(<<LBRACKET, LBRACE, Str("code"), COLON>>)}

\* A catalogue that has never been touched from outside.
CleanFiles == {NoFile, FileOf(<<>>), FileOf(json_dump(<<>>))}

InitWith(files) ==
    /\ file \in files
    /\ pc = [r \in RequestIds |-> "idle"]
    /\ request = [r \in RequestIds |-> NoRequest]
    /\ response = [r \in RequestIds |-> NoResponse]
    /\ exception = [r \in RequestIds |-> ""]
    /\ courses = [r \in RequestIds |-> <<>>]
    /\ current_span = [r \in RequestIds |-> 0]
    /\ spans = <<>>
    /\ warnings = {}
    /\ route_request_counter = EmptyBag
    /\ route_processing_time = EmptyBag
    /\ error_counter = EmptyBag
    /\ log = <<>>

Init == InitWith(InitialFiles)

\* The view function of r returned rv.
Return(r, rv) ==
    /\ pc' = [pc EXCEPT ![r] = "responded"]
    /\ response' = [response EXCEPT ![r] = rv]
    /\ UNCHANGED exception

\* The view function of r raised e.
Raise(r, e) ==
    /\ pc' = [pc EXCEPT ![r] = "raised"]
    /\ exception' = [exception EXCEPT ![r] = e]
    /\ UNCHANGED response

\* The request context of r is popped.
Finish(r) ==
    /\ pc' = [pc EXCEPT ![r] = "done"]
    /\ request' = [request EXCEPT ![r] = NoRequest]
    /\ response' = [response EXCEPT ![r] = NoResponse]
    /\ exception' = [exception EXCEPT ![r] = ""]
    /\ courses' = [courses EXCEPT ![r] = <<>>]
    /\ current_span' = [current_span EXCEPT ![r] = 0]

\* @app.before_request: open the request span.  Requests arrive in the order
\* of their ids, at most `threads` of them are served at once.
before_request(r, req, threads) ==
    /\ pc[r] = "idle"
    /\ \A q \in RequestIds : q < r => pc[q] # "idle"
    /\ Cardinality(InFlight) < threads
    /\ pc' = [pc EXCEPT ![r] = "started"]
    /\ request' = [request EXCEPT ![r] = [req EXCEPT !.span = Len(spans) + 1]]
    /\ spans' = Append(spans, Span(<<req.method>> \o req.path,
                                   ("http.method" :> req.method)
                                   @@ ("http.url" :> req.path)))
    /\ UNCHANGED <<file, response, exception, courses, current_span, warnings,
                   route_request_counter, route_processing_time, error_counter, log>>

\* No rule matches the path, or the rule does not take the method: werkzeug's
\* NotFound / MethodNotAllowed, which Flask turns into the response.
routing_error(r) ==
    /\ pc[r] = "started"
    /\ match_request(request[r]) \in {"404", "405"}
    /\ Return(r, Response(IF match_request(request[r]) = "404" THEN 404 ELSE 405,
                          "", NoContext, <<>>))
    /\ UNCHANGED <<file, request, courses, current_span, telemetry>>

\* @app.route('/')
index(r) ==
    /\ pc[r] = "started"
    /\ match_request(request[r]) = "index"
    /\ spans' = Append(spans, handler_span(<<"Rendering Home Page">>,
                                           request[r].method, <<>>))
    /\ log' = Append(log, LogRecord("INFO", "Successfully rendered the Home Page",
                                    log_extra(<<>>, request[r].method)))
    /\ Return(r, Response(200, "index.html", NoContext, <<>>))
    /\ UNCHANGED <<file, request, courses, current_span, warnings, route_request_counter,
                   route_processing_time, error_counter>>

\* @app.route('/catalog')
course_catalog(r) ==
    /\ pc[r] = "started"
    /\ match_request(request[r]) = "course_catalog"
    /\ LET sp == handler_span(<<"Rendering Course Catalog">>,
                              request[r].method, <<"catalog">>)
           loaded == load_courses(file)
           count == py_len(loaded.val)
           names == course_names(loaded.val)
           sp1 == set_attribute(sp, "course.count", count.n)
           sp2 == set_attribute(sp1, "course.names", names.names)
       IN  /\ log' = Append(log, LogRecord("INFO",
                                "Successfully rendered the Course Catalog Page",
                                log_extra(<<"catalog">>, request[r].method)))
           /\ IF loaded.exc # ""
              THEN /\ Raise(r, loaded.exc)
                   /\ spans' = Append(spans, sp)
                   /\ UNCHANGED warnings
              ELSE IF count.exc # ""
              THEN /\ Raise(r, count.exc)
                   /\ spans' = Append(spans, sp)
                   /\ UNCHANGED warnings
              ELSE IF names.exc # ""
              THEN /\ Raise(r, names.exc)
                   /\ spans' = Append(spans, sp1)
                   /\ warnings' = warnings \cup ended_span_warnings(sp, {"course.count"})
              ELSE /\ Return(r, Response(200, "course_catalog.html", loaded.val, <<>>))
                   /\ spans' = Append(spans, sp2)
                   /\ warnings' = warnings
                        \cup ended_span_warnings(sp, {"course.count", "course.names"})
    /\ UNCHANGED <<file, request, courses, current_span, route_request_counter,
                   route_processing_time, error_counter>>

\* The course add_courses builds from a form with all three fields.
course_of(form) == Course(form.code[1], form.name[1], form.instructor[1])

\* @app.route('/add_courses', methods=['GET', 'POST']), up to the read in
\* save_courses: the form page, the validation, and courses = load_courses()
\* with the new course appended.
add_courses(r) ==
    /\ pc[r] = "started"
    /\ match_request(request[r]) = "add_courses"
    /\ spans' = Append(spans, handler_span(<<"Handling form submissions">>,
                                           request[r].method, <<"add_courses">>))
    /\ current_span' = [current_span EXCEPT ![r] = Len(spans) + 1]
    /\ LET form == request[r].form
           loaded == load_courses(file)
           appended == list_append(loaded.val, course_of(form))
       IN  IF request[r].method = "GET"
           THEN /\ Return(r, Response(200, "add_courses.html", NoContext, <<>>))
                /\ UNCHANGED <<courses, error_counter, log>>
           ELSE IF form_invalid(form)
           THEN /\ error_counter' = error_counter
                       (+) SetToBag({("route" :> <<"add_courses">>)
                                     @@ ("error_type" :> "missing_fields")})
                /\ log' = Append(log, LogRecord("ERROR", "Missing required fields",
                              ("missing_fields" :> missing_fields(form))
                              @@ log_extra(<<"add_courses">>, request[r].method)))
                /\ Return(r, Redirect("error", "Error: Missing required fields",
                                      missing_fields(form)))
                /\ UNCHANGED courses
           ELSE IF loaded.exc # ""
           THEN /\ Raise(r, loaded.exc)
                /\ UNCHANGED <<courses, error_counter, log>>
           ELSE IF appended.exc # ""
           THEN /\ Raise(r, appended.exc)
                /\ UNCHANGED <<courses, error_counter, log>>
           ELSE /\ pc' = [pc EXCEPT ![r] = "save_open"]
                /\ courses' = [courses EXCEPT ![r] = appended.items]
                /\ UNCHANGED <<response, exception, error_counter, log>>
    /\ UNCHANGED <<file, request, warnings, route_request_counter,
                   route_processing_time>>

\* save_courses: open(COURSE_FILE, 'w') creates the file or truncates it.
save_open(r) ==
    /\ pc[r] = "save_open"
    /\ file' = FileOf(<<>>)
    /\ pc' = [pc EXCEPT ![r] = "save_dump"]
    /\ UNCHANGED <<request, response, exception, courses, current_span, telemetry>>

\* What a file opened with 'w' holds once `data` is written and flushed: the
\* handle writes from offset 0, over whatever another handle wrote since.
write_from_start(text, data) == data \o SubSeq(text, Len(data) + 1, Len(text))

\* save_courses: json.dump and the close of the file, then the rest of
\* add_courses: tag the span, log, flash, redirect.
save_dump(r) ==
    /\ pc[r] = "save_dump"
    /\ file' = FileOf(write_from_start(file.text, json_dump(courses[r])))
    /\ LET form == request[r].form
           i == current_span[r]
           sp1 == set_attribute(spans[i], "course.code", form.code[1])
           sp2 == set_attribute(sp1, "course.name", form.name[1])
           sp3 == set_attribute(sp2, "course.instructor", form.instructor[1])
       IN  /\ spans' = [spans EXCEPT ![i] = sp3]
           /\ warnings' = warnings \cup ended_span_warnings(spans[i],
                              {"course.code", "course.name", "course.instructor"})
           /\ log' = Append(log, LogRecord("INFO", "Course added successfully",
                         ("course_code" :> form.code[1])
                         @@ ("course_name" :> form.name[1])
                         @@ ("instructor" :> form.instructor[1])
                         @@ log_extra(<<"add_courses">>, request[r].method)))
    /\ Return(r, Redirect("success", "Course added successfully!", <<>>))
    /\ UNCHANGED <<request, courses, current_span, route_request_counter,
                   route_processing_time, error_counter>>

\* @app.route('/course/<code>')
course_details(r) ==
    /\ pc[r] = "started"
    /\ match_request(request[r]) = "course_details"
    /\ LET code == request[r].path[2]
           sp == span_end(Span(<<"Rendering Course Details">>,
                      ("http.method" :> request[r].method)
                      @@ ("user.ip" :> "127.0.0.1")
                      @@ ("route" :> request[r].path)
                      @@ ("course.code" :> code)))
           extra == ("course_code" :> code)
                    @@ log_extra(request[r].path, request[r].method)
           rendered == LogRecord("INFO", "Successfully rendered Course Details", extra)
           loaded == load_courses(file)
           course == find_course(loaded.val, code)
       IN  IF loaded.exc # "" \/ course.exc # ""
           THEN /\ Raise(r, IF loaded.exc # "" THEN loaded.exc ELSE course.exc)
                /\ spans' = Append(spans, sp)
                /\ log' = Append(log, rendered)
                /\ UNCHANGED warnings
           ELSE IF ~course.found
           THEN /\ spans' = Append(spans, set_attribute(sp, "error", TRUE))
                /\ warnings' = warnings \cup ended_span_warnings(sp, {"error"})
                /\ log' = log \o <<rendered,
                                   LogRecord("ERROR", "No course found with code", extra)>>
                /\ Return(r, Redirect("error", "No course found with code", <<code>>))
           ELSE /\ spans' = Append(spans, sp)
                /\ log' = Append(log, rendered)
                /\ Return(r, Response(200, "course_details.html",
                                      JObject(course.course), <<>>))
                /\ UNCHANGED warnings
    /\ UNCHANGED <<file, request, courses, current_span, route_request_counter,
                   route_processing_time, error_counter>>

\* Flask.handle_exception for an exception no handler is registered for: in
\* debug mode it is re-raised to the server and the after_request functions
\* are not run; otherwise it becomes a 500 response, which is finalized.
handle_exception(r) ==
    /\ pc[r] = "raised"
    /\ IF DEBUG
       THEN Finish(r)
       ELSE /\ Return(r, Response(500, "", NoContext, <<>>))
            /\ UNCHANGED <<request, courses, current_span>>
    /\ UNCHANGED <<file, telemetry>>

\* The attributes after_request gives its three instruments.
metric_attributes(req) == ("route" :> req.path) @@ ("method" :> req.method)

\* @app.after_request: tag and end the request span, count, log.
after_request(r) ==
    /\ pc[r] = "responded"
    /\ LET status == response[r].status
           i == request[r].span
           sp1 == set_attribute(spans[i], "http.status_code", status)
           sp2 == IF is_error_status(status) THEN set_attribute(sp1, "error", TRUE)
                  ELSE sp1
           attrs == metric_attributes(request[r])
       IN  /\ spans' = [spans EXCEPT ![i] = span_end(sp2)]
           /\ route_request_counter' = route_request_counter (+) SetToBag({attrs})
           /\ route_processing_time' = route_processing_time (+) SetToBag({attrs})
           /\ error_counter' = IF is_error_status(status)
                               THEN error_counter (+) SetToBag({attrs})
                               ELSE error_counter
           /\ log' = Append(log, LogRecord("INFO", "Request processed",
                         ("method" :> request[r].method)
                         @@ ("path" :> request[r].path)
                         @@ ("status_code" :> status)
                         @@ ("user_ip" :> "127.0.0.1")))
    /\ Finish(r)
    /\ UNCHANGED <<file, warnings>>

\* What the server does with the requests it has accepted.
Serve(r) ==
    \/ routing_error(r)
    \/ index(r)
    \/ course_catalog(r)
    \/ add_courses(r)
    \/ save_open(r)
    \/ save_dump(r)
    \/ course_details(r)
    \/ handle_exception(r)
    \/ after_request(r)

\* One request at a time.
Next ==
    \/ \E r \in RequestIds, req \in Requests : before_request(r, req, 1)
    \/ \E r \in RequestIds : Serve(r)

Spec == Init /\ [][Next]_vars

\* The requests of the concurrent runs: every route once, and the
\* submissions that can overlap.
ConcurrentRequests ==
    {Req("GET", p, NoForm) : p \in {<<>>, <<"catalog">>, <<"add_courses">>,
                                    <<"course", "CS203">>, <<"nope">>}}
    \cup {Req("POST", <<"add_courses">>, f) :
            f \in [code : {<<"CS203">>, <<"cs203">>}, name : {<<"">>, <<"Algo">>},
                   instructor : {<<"Dr. X">>}]}

\* Up to MaxThreads requests at once (the development server is threaded).
NextConcurrent ==
    \/ \E r \in RequestIds, req \in ConcurrentRequests :
            before_request(r, req, MaxThreads)
    \/ \E r \in RequestIds : Serve(r)

SpecConcurrent == InitWith(CleanFiles) /\ [][NextConcurrent]_vars

\* The same server, one request at a time, on a catalogue nobody edited.
SpecClean == InitWith(CleanFiles) /\ [][Next]_vars

\* ------------------------------------------------------------ properties
Finished == {r \in RequestIds : pc[r] = "done"}

\* The spans before_request opened: only they carry http.url.
IsRequestSpan(sp) == "http.url" \in DOMAIN sp.attrs

RequestSpans == {i \in 1..Len(spans) : IsRequestSpan(spans[i])}

LogIndexes(msg) == {i \in 1..Len(log) : log[i].msg = msg}

\* The persisted collection, when the file holds one.
Persisted == load_courses(file).val

HasCollection == load_courses(file).exc = "" /\ Persisted.kind = "array"

SeqRange(q) == {q[i] : i \in 1..Len(q)}

\* r takes the step from `from` to `to`.
Steps(r, from, to) == pc[r] = from /\ pc'[r] = to

\* C1: after N finished requests there are N closed request spans, N
\* increments of route_requests_total and N "Request processed" records.
C1_OnePerFinishedRequest ==
    LET N == Cardinality(Finished)
    IN  /\ Cardinality({i \in RequestSpans : spans[i].ended}) = N
        /\ BagCardinality(route_request_counter) = N
        /\ Cardinality(LogIndexes("Request processed")) = N

\* C2: no request finishes with its request span still open: every open
\* request span belongs to a request that is still being served.
C2_NoSpanLeftOpen ==
    \A i \in RequestSpans :
        ~spans[i].ended => \E r \in InFlight : request[r].span = i

\* C3: served one at a time, a successful submission makes the persisted
\* collection the collection it found with the new record appended, and
\* nothing else ever writes the file.
C3_AppendOnly ==
    /\ [](\A r \in RequestIds :
            pc[r] = "save_open" =>
                /\ HasCollection
                /\ courses[r] = Append(Persisted.items, course_of(request[r].form)))
    /\ [][/\ \A r \in RequestIds :
                /\ Steps(r, "save_open", "save_dump") => courses'[r] = courses[r]
                /\ Steps(r, "save_dump", "responded") =>
                      /\ json_load(file'.text) = JArray(courses[r])
                      /\ response'[r].flash[1].category = "success"
          /\ file' # file => \E r \in RequestIds : pc[r] \in {"save_open", "save_dump"}
         ]_vars

C3_Witness ==
    /\ HasCollection
    /\ Len(Persisted.items) >= 2
    /\ \E r \in RequestIds :
          /\ pc[r] = "responded"
          /\ response[r].flash # <<>>
          /\ response[r].flash[1].category = "success"
          /\ Persisted.items[Len(Persisted.items)] = course_of(request[r].form)

\* The names of the fields of a form that are empty or absent.
EmptyFields(form) ==
    {n \in {"Course Code", "Course Name", "Instructor"} :
        LET x == IF n = "Course Code" THEN form.code
                 ELSE IF n = "Course Name" THEN form.name
                 ELSE form.instructor
        IN  x \in {<<>>, <<"">>}}

IsSubmission(r) ==
    /\ pc[r] = "started"
    /\ request[r].method = "POST"
    /\ request[r].path = <<"add_courses">>

\* C4: a POST /add_courses with an empty or absent field is redirected with
\* exactly the empty or absent fields reported (flashed and logged) and the
\* file untouched; with all three filled it passes validation; only a
\* request whose form passed validation writes the file.
C4_ValidationReportsMissing ==
    [][/\ \A r \in RequestIds :
            IsSubmission(r) /\ pc'[r] # "started" =>
                IF EmptyFields(request[r].form) # {}
                THEN /\ pc'[r] = "responded"
                     /\ response'[r].status = 302
                     /\ response'[r].flash[1].category = "error"
                     /\ SeqRange(response'[r].flash[1].args)
                            = EmptyFields(request[r].form)
                     /\ Len(response'[r].flash[1].args)
                            = Cardinality(EmptyFields(request[r].form))
                     /\ log'[Len(log')].extra["missing_fields"]
                            = response'[r].flash[1].args
                     /\ file' = file
                ELSE /\ pc'[r] \in {"save_open", "raised"}
                     /\ response'[r].flash = <<>>
                     /\ LogIndexes("Missing required fields")' 
                            = LogIndexes("Missing required fields")
       /\ file' # file =>
            \E r \in RequestIds : /\ pc[r] \in {"save_open", "save_dump"}
                                  /\ EmptyFields(request[r].form) = {}
      ]_vars

C4_Witness ==
    \E r \in RequestIds :
        /\ pc[r] = "responded"
        /\ request[r].form.code = <<"">>
        /\ request[r].form.name # <<>> /\ request[r].form.name # <<"">>
        /\ request[r].form.instructor = <<>>
        /\ response[r].flash # <<>>
        /\ response[r].flash[1].args = <<"Course Code", "Instructor">>
        /\ HasCollection /\ Len(Persisted.items) = 1

Min(S) == CHOOSE x \in S : \A y \in S : x <= y

\* C5: GET /course/<code> renders the record of smallest index whose code is
\* the requested one, and redirects with "No course found" exactly when no
\* record has it; a submission whose code is already there is accepted.
C5_FirstExactMatch ==
    [][\A r \in RequestIds :
          LET items == Persisted.items
              wellFormed == /\ HasCollection
                            /\ \A i \in 1..Len(items) : "code" \in DOMAIN items[i]
          IN  /\ (/\ wellFormed
                  /\ pc[r] = "started"
                  /\ match_request(request[r]) = "course_details"
                  /\ pc'[r] # "started") =>
                    LET hits == {i \in 1..Len(items) :
                                    items[i]["code"] = request[r].path[2]}
                    IN  /\ pc'[r] = "responded"
                        /\ IF hits = {}
                           THEN /\ response'[r].status = 302
                                /\ response'[r].flash[1].message
                                       = "No course found with code"
                           ELSE /\ response'[r].status = 200
                                /\ response'[r].flash = <<>>
                                /\ response'[r].context = JObject(items[Min(hits)])
              /\ (/\ wellFormed
                  /\ IsSubmission(r)
                  /\ EmptyFields(request[r].form) = {}
                  /\ pc'[r] # "started") =>
                    /\ pc'[r] = "save_open"
                    /\ courses'[r] = Append(items, course_of(request[r].form))
      ]_vars

\* A lookup answered with the first of two records of the same code.
C5_Witness ==
    /\ HasCollection
    /\ Len(Persisted.items) = 2
    /\ Persisted.items[1]["code"] = Persisted.items[2]["code"]
    /\ Persisted.items[1] # Persisted.items[2]
    /\ \E r \in RequestIds :
          /\ pc[r] = "responded"
          /\ response[r].body = "course_details.html"
          /\ response[r].context = JObject(Persisted.items[1])

\* C6: load() gives the empty sequence when there is no file and never hands
\* its caller a value that is not a sequence: the catalogue page is only
\* ever rendered over a list.
C6_LoadReturnsSequence ==
    /\ ~file.exists => load_courses(file) = [exc |-> "", val |-> JArray(<<>>)]
    /\ \A r \in RequestIds :
          response[r].body = "course_catalog.html" =>
              response[r].context.kind = "array"

\* C7: from a missing or empty file, every persisted record has a non-empty
\* code, name and instructor.
C7_RecordsComplete ==
    HasCollection =>
        \A i \in 1..Len(Persisted.items) :
            /\ DOMAIN Persisted.items[i] = {"code", "name", "instructor"}
            /\ \A k \in DOMAIN Persisted.items[i] : Persisted.items[i][k] # ""

C7_Witness ==
    /\ HasCollection
    /\ Len(Persisted.items) >= 1
    /\ LogIndexes("Missing required fields") # {}

\* C8: after_request ends the request span tagged with the response's
\* status, with the error flag exactly when the status is 400 or more, and
\* adds 1 to error_count exactly then.
C8_ErrorIffStatus400 ==
    [][\A r \in RequestIds :
          Steps(r, "responded", "done") =>
              LET status == response[r].status
                  sp == spans'[request[r].span]
              IN  /\ sp.ended
                  /\ "http.status_code" \in DOMAIN sp.attrs
                  /\ sp.attrs["http.status_code"] = status
                  /\ ("error" \in DOMAIN sp.attrs) <=> (status >= 400)
                  /\ BagCardinality(error_counter')
                        = BagCardinality(error_counter)
                          + (IF status >= 400 THEN 1 ELSE 0)
      ]_vars

\* A redirect that was not counted and a 404 that was.
C8_Witness ==
    \E i, j \in RequestSpans :
        /\ spans[i].ended /\ spans[j].ended
        /\ "http.status_code" \in DOMAIN spans[i].attrs
        /\ "http.status_code" \in DOMAIN spans[j].attrs
        /\ spans[i].attrs["http.status_code"] = 302
        /\ "error" \notin DOMAIN spans[i].attrs
        /\ spans[j].attrs["http.status_code"] = 404
        /\ "error" \in DOMAIN spans[j].attrs
        /\ BagCardinality(error_counter) = 1

\* The courses the log says were added, in order.
AddedCourses ==
    LET idx == LogIndexes("Course added successfully")
        nth[k \in 0..Cardinality(idx)] ==
            IF k = 0 THEN 0 ELSE Min({i \in idx : i > nth[k - 1]})
    IN  [k \in 1..Cardinality(idx) |->
            Course(log[nth[k]].extra["course_code"],
                   log[nth[k]].extra["course_name"],
                   log[nth[k]].extra["instructor"])]

\* C9: with overlapping writers the last one to write wins: starting from
\* an empty catalogue, a readable collection ends with the course added
\* last, holds only added courses and never more of them than submissions
\* succeeded -- and it can hold fewer (the witness).
C9_LastWriterWins ==
    (HasCollection /\ AddedCourses # <<>>) =>
        /\ Persisted.items # <<>>
        /\ Persisted.items[Len(Persisted.items)] = AddedCourses[Len(AddedCourses)]
        /\ Len(Persisted.items) <= Len(AddedCourses)
        /\ SeqRange(Persisted.items) \subseteq SeqRange(AddedCourses)

\* Two submissions reported success and one record is there.
C9_LostUpdate ==
    /\ Len(AddedCourses) = 2
    /\ AddedCourses[1] # AddedCourses[2]
    /\ HasCollection
    /\ Len(Persisted.items) = 1

\* C10: a view function only tags a span that is still open, so the SDK
\* never has to drop an attribute.
C10_TagsOnOpenSpans == warnings = {}

====
